---- MODULE Spec2Model ----
(***************************************************************************)
(* DatabaseCorrector (src/database_corrector.py): compare the schema of a  *)
(* source database with a target database and issue corrective DDL on the  *)
(* target.                                                                 *)
(*                                                                         *)
(* A string is modelled as the sequence of its space-separated tokens, so  *)
(* that f-string formatting, the `in` substring tests and split(" ") are   *)
(* computed as the code computes them.  The Russian words of the messages  *)
(* are transliterated:                                                     *)
(*   "Dobavlena tablitsa T"              line 25  (table only in target)   *)
(*   "Otsutstvuet tablitsa T"            line 27  (table only in source)   *)
(*   "V tablitse T otsutstvuet kolonka C" line 35                          *)
(*   "V tablitse T otsutstvuet indeks I"  line 43                          *)
(***************************************************************************)
EXTENDS Integers, Sequences, FiniteSets, TLC

\* ------------------------------------------------------------- bounds
\* Longest column list of an index in the enumerated schemas.
MaxIdxCols == 1
\* Most metadata retrievals that raise OperationalError in one comparison.
MaxOpErrors == 1
MaxDrops == 1

\* ------------------------------------------------------------- tokens
\* A word of a message.
W(s) == <<s, 0>>
\* An identifier (table, column or index name): one token, no whitespace,
\* and none of the words of the messages.
Ident(n) == <<"id", n>>

TableNames == {Ident(1), Ident(2)}
ColNames == {Ident(1), Ident(2)}
IdxNames == {Ident(3)}

Range(s) == {s[k] : k \in DOMAIN s}

\* ------------------------------------------------------------- schemas
\* Column lists of an index over the columns cs: distinct columns.
IdxColSeqs(cs) ==
    {q \in UNION {[1..k -> cs] : k \in 1..MaxIdxCols} :
        \A a, b \in DOMAIN q : a # b => q[a] # q[b]}

IndexDefs(cs) == [columns : IdxColSeqs(cs), unique : BOOLEAN]

IdxMaps(cs) == UNION {[N -> IndexDefs(cs)] : N \in SUBSET IdxNames}

\* A table: its column names and its indexes by name.
TableDefs ==
    UNION {{[columns |-> cs, indexes |-> im] : im \in IdxMaps(cs)} :
              cs \in (SUBSET ColNames) \ {{}}}

\* A database schema: the tables it holds, by name.
Schemas == UNION {[N -> TableDefs] : N \in SUBSET TableNames}

\* The schemas whose indexes are all non-unique.
PlainTableDefs == {d \in TableDefs : \A n \in DOMAIN d.indexes : ~d.indexes[n].unique}

PlainSchemas == UNION {[N -> PlainTableDefs] : N \in SUBSET TableNames}

\* inspector.get_table_names()
get_table_names(S) == DOMAIN S

\* inspector.get_table(name): the table, or None; an option as a sequence.
None == <<>>
get_table(S, t) == IF t \in DOMAIN S THEN <<S[t]>> ELSE None

\* The members of a set of identifiers in ascending order: the order in
\* which a table's columns and indexes are iterated.
RECURSIVE InOrder(_)
InOrder(N) ==
    IF N = {} THEN <<>>
    ELSE LET m == CHOOSE x \in N : \A y \in N : x[2] <= y[2]
         IN <<m>> \o InOrder(N \ {m})

\* The iteration orders of a Python set of names: any order.
Orders(N) ==
    {q \in [1..Cardinality(N) -> N] :
        \A a, b \in DOMAIN q : a # b => q[a] # q[b]}

\* ------------------------------------------------------------- messages
DiffAdded(t) == [kind |-> "added", table |-> t, name |-> t]
DiffMissing(t) == [kind |-> "missing", table |-> t, name |-> t]
DiffColumn(t, c) == [kind |-> "column", table |-> t, name |-> c]
DiffIndex(t, i) == [kind |-> "index", table |-> t, name |-> i]

\* The f-strings of lines 25, 27, 35 and 43.
Format(d) ==
    CASE d.kind = "added" -> <<W("Dobavlena"), W("tablitsa"), d.table>>
      [] d.kind = "missing" -> <<W("Otsutstvuet"), W("tablitsa"), d.table>>
      [] d.kind = "column" ->
           <<W("V"), W("tablitse"), d.table, W("otsutstvuet"), W("kolonka"), d.name>>
      [] d.kind = "index" ->
           <<W("V"), W("tablitse"), d.table, W("otsutstvuet"), W("indeks"), d.name>>

\* `sub in s` for a phrase of words.
Contains(s, sub) ==
    \E k \in 0..(Len(s) - Len(sub)) : \A j \in 1..Len(sub) : s[k + j] = sub[j]

\* s.split(" ")[-n:]
LastTokens(s, n) ==
    IF Len(s) <= n THEN s ELSE SubSeq(s, Len(s) - n + 1, Len(s))

\* ------------------------------------------------------------- compare
\* Variant: the membership test of line 31 inverted (`in` for `not in`).
ColumnDiffs_Inverted(t, st, tt) ==
    LET cs == InOrder(st.columns)
    IN SelectSeq([k \in DOMAIN cs |-> DiffColumn(t, cs[k])],
                 LAMBDA d : d.name \in tt.columns)

\* Variant: the comparison made in both directions, so that a column only
\* the target has is reported as well.
ColumnDiffs_Symmetric(t, st, tt) ==
    LET cs == InOrder(st.columns \cup tt.columns)
    IN SelectSeq([k \in DOMAIN cs |-> DiffColumn(t, cs[k])],
                 LAMBDA d : d.name \notin tt.columns \/ d.name \notin st.columns)

\* Lines 30-36: the columns of the source table missing by name in the target.
ColumnDiffs(t, st, tt) ==
    LET cs == InOrder(st.columns)
    IN SelectSeq([k \in DOMAIN cs |-> DiffColumn(t, cs[k])],
                 LAMBDA d : d.name \notin tt.columns)

\* Lines 38-44: the indexes of the source table missing by name in the target.
IndexDiffs(t, st, tt) ==
    LET is == InOrder(DOMAIN st.indexes)
    IN SelectSeq([k \in DOMAIN is |-> DiffIndex(t, is[k])],
                 LAMBDA d : d.name \notin DOMAIN tt.indexes)

\* Variant: the tests of lines 24 and 26 exchanged.
TableDiffs_Swapped(S, T, errs, t) ==
    IF t \in errs.src \cup errs.tgt THEN <<>>
    ELSE IF get_table(T, t) = None THEN <<DiffAdded(t)>>
    ELSE IF get_table(S, t) = None THEN <<DiffMissing(t)>>
    ELSE ColumnDiffs(t, S[t], T[t]) \o IndexDiffs(t, S[t], T[t])

\* Variant: a table absent from the target is compared as an empty table
\* before it is reported missing.
TableDiffs_ColumnsFirst(S, T, errs, t) ==
    IF t \in errs.src \cup errs.tgt THEN <<>>
    ELSE IF get_table(S, t) = None THEN <<DiffAdded(t)>>
    ELSE IF get_table(T, t) = None
         THEN ColumnDiffs(t, S[t], [columns |-> {}, indexes |-> <<>>])
              \o <<DiffMissing(t)>>
    ELSE ColumnDiffs(t, S[t], T[t]) \o IndexDiffs(t, S[t], T[t])

\* Variant: a table absent from the target is reported missing and then
\* compared as an empty table (the elif of line 26 falling through).
TableDiffs_FallThrough(S, T, errs, t) ==
    IF t \in errs.src \cup errs.tgt THEN <<>>
    ELSE IF get_table(S, t) = None THEN <<DiffAdded(t)>>
    ELSE IF get_table(T, t) = None
         THEN <<DiffMissing(t)>>
              \o IndexDiffs(t, S[t], [columns |-> {}, indexes |-> <<>>])
    ELSE ColumnDiffs(t, S[t], T[t]) \o IndexDiffs(t, S[t], T[t])

\* Variant: a table whose retrieval raises on one side is taken as absent
\* on that side.
TableDiffs_ErrAsAbsent(S, T, errs, t) ==
    LET source_table == IF t \in errs.src THEN None ELSE get_table(S, t)
        target_table == IF t \in errs.tgt THEN None ELSE get_table(T, t)
    IN IF source_table = None THEN <<DiffAdded(t)>>
       ELSE IF target_table = None THEN <<DiffMissing(t)>>
       ELSE ColumnDiffs(t, source_table[1], target_table[1])
            \o IndexDiffs(t, source_table[1], target_table[1])

\* Lines 21-46: the body of the loop for one table name.  errs.src and
\* errs.tgt are the tables whose retrieval raises OperationalError on the
\* source (line 22) and on the target (line 23).
TableDiffs(S, T, errs, t) ==
    IF t \in errs.src \cup errs.tgt THEN <<>>
    ELSE LET source_table == get_table(S, t)
             target_table == get_table(T, t)
         IN IF source_table = None THEN <<DiffAdded(t)>>
            ELSE IF target_table = None THEN <<DiffMissing(t)>>
            ELSE ColumnDiffs(t, source_table[1], target_table[1])
                 \o IndexDiffs(t, source_table[1], target_table[1])

\* Variant: the try statement around the loop instead of inside it, so that
\* the first OperationalError ends the comparison.
RECURSIVE Detect_StopAtError(_, _, _, _)
Detect_StopAtError(S, T, errs, ord) ==
    IF ord = <<>> \/ Head(ord) \in errs.src \cup errs.tgt THEN <<>>
    ELSE TableDiffs(S, T, errs, Head(ord)) \o Detect_StopAtError(S, T, errs, Tail(ord))

\* Lines 18-47: the differences found, visiting the table names in order ord.
RECURSIVE Detect(_, _, _, _)
Detect(S, T, errs, ord) ==
    IF ord = <<>> THEN <<>>
    ELSE TableDiffs(S, T, errs, Head(ord)) \o Detect(S, T, errs, Tail(ord))

\* compare_schemas: the list of messages.
compare_schemas(S, T, errs, ord) ==
    LET d == Detect(S, T, errs, ord) IN [k \in DOMAIN d |-> Format(d[k])]

\* ------------------------------------------------------------- target DDL
\* CREATE TABLE t: lines 76-77, 89-90.
CanCreateTable(T, t) == t \notin DOMAIN T
\* Variant: the schema is rebuilt with the new table alone.
WithTable_Replace(T, t, def) == [x \in {t} |-> def]
WithTable(T, t, def) == [x \in DOMAIN T \cup {t} |-> IF x = t THEN def ELSE T[x]]

\* ALTER TABLE t ADD COLUMN c: lines 103-111.
CanAddColumn(T, t, c) == t \in DOMAIN T /\ c \notin T[t].columns
WithColumn(T, t, c) == [T EXCEPT ![t].columns = @ \cup {c}]

\* CREATE INDEX i ON t (cols): lines 124-132; no UNIQUE keyword is emitted.
CanCreateIndex(T, t, i, cols) ==
    /\ t \in DOMAIN T
    /\ i \notin DOMAIN T[t].indexes
    /\ Range(cols) \subseteq T[t].columns
WithIndex(T, t, i, cols) ==
    [T EXCEPT ![t].indexes =
        [x \in DOMAIN @ \cup {i} |->
            IF x = i THEN [columns |-> cols, unique |-> FALSE] ELSE @[x]]]

\* Lines 73-75, 86-88: Column(col.name, col.type) for every column and
\* Index(idx.name, idx.columns) for every index; uniqueness is not passed.
NewTable(table) ==
    [columns |-> table.columns,
     indexes |-> [n \in DOMAIN table.indexes |->
                     [columns |-> table.indexes[n].columns, unique |-> FALSE]]]

\* ------------------------------------------------------------- statements
\* The DDL statements a handler sends inside its transaction.
CreateTableStmt(t, cs) ==
    [kind |-> "create_table", table |-> t, name |-> t, colset |-> cs, colseq |-> <<>>]
AddColumnStmt(t, c) ==
    [kind |-> "add_column", table |-> t, name |-> c, colset |-> {c}, colseq |-> <<>>]
CreateIndexStmt(t, n, cols) ==
    [kind |-> "create_index", table |-> t, name |-> n, colset |-> {}, colseq |-> cols]

\* new_table.create(sync_conn), lines 77 and 90: CREATE TABLE, then one
\* CREATE INDEX for every index of the table.
TableStmts(t, def) ==
    LET is == InOrder(DOMAIN def.indexes)
    IN <<CreateTableStmt(t, def.columns)>>
       \o [k \in DOMAIN is |-> CreateIndexStmt(t, is[k], def.indexes[is[k]].columns)]

\* Whether the database accepts the statement, and the schema after it.
Applicable(T, s) ==
    CASE s.kind = "create_table" -> CanCreateTable(T, s.table)
      [] s.kind = "add_column" -> CanAddColumn(T, s.table, s.name)
      [] s.kind = "create_index" -> CanCreateIndex(T, s.table, s.name, s.colseq)

Apply(T, s) ==
    CASE s.kind = "create_table" ->
           WithTable(T, s.table, [columns |-> s.colset, indexes |-> <<>>])
      [] s.kind = "add_column" -> WithColumn(T, s.table, s.name)
      [] s.kind = "create_index" -> WithIndex(T, s.table, s.name, s.colseq)

\* The statements run in order inside the transaction until one raises:
\* the one the database rejects, or statement failAt, which fails for a
\* reason outside the schema (permissions, a lost connection); failAt = 0
\* is no such failure.
RECURSIVE RunStmts(_, _, _)
RunStmts(T, stmts, failAt) ==
    IF stmts = <<>> THEN [work |-> T, ok |-> TRUE]
    ELSE IF failAt = 1 \/ ~Applicable(T, Head(stmts)) THEN [work |-> T, ok |-> FALSE]
    ELSE RunStmts(Apply(T, Head(stmts)), Tail(stmts), failAt - 1)

\* ------------------------------------------------------------- handlers
\* What a handler does up to its `async with`:
\*   "not_found"  the early return after the lookup in the source
\*   "attr_error" self.metadata is read and was never assigned
\*   "ddl"        a transaction is begun for the statements stmts
Plan(r, stmts) == [res |-> r, stmts |-> stmts]

\* add_table and create_table share their body (lines 67-78, 80-91).
create_table(S, meta, table_name) ==
    LET table == get_table(S, table_name)
    IN IF table = None THEN Plan("not_found", <<>>)
       ELSE IF ~meta THEN Plan("attr_error", <<>>)
       ELSE Plan("ddl", TableStmts(table_name, NewTable(table[1])))

add_table(S, meta, table_name) == create_table(S, meta, table_name)

\* Lines 93-112.
add_column(S, table_name, col_name) ==
    LET table == get_table(S, table_name)
    IN IF table = None THEN Plan("not_found", <<>>)
       ELSE IF col_name \notin table[1].columns THEN Plan("not_found", <<>>)
       ELSE Plan("ddl", <<AddColumnStmt(table_name, col_name)>>)

\* Lines 114-134.
add_index(S, table_name, idx_name) ==
    LET table == get_table(S, table_name)
    IN IF table = None THEN Plan("not_found", <<>>)
       ELSE IF idx_name \notin DOMAIN table[1].indexes THEN Plan("not_found", <<>>)
       ELSE Plan("ddl", <<CreateIndexStmt(table_name, idx_name,
                                          table[1].indexes[idx_name].columns)>>)

\* Lines 53-64: the branch of the if/elif chain a message takes.
Branch(diff) ==
    IF Contains(diff, <<W("Dobavlena"), W("tablitsa")>>) THEN "add_table"
    ELSE IF Contains(diff, <<W("Otsutstvuet"), W("tablitsa")>>) THEN "create_table"
    ELSE IF Contains(diff, <<W("otsutstvuet"), W("kolonka")>>) THEN "add_column"
    ELSE IF Contains(diff, <<W("otsutstvuet"), W("indeks")>>) THEN "add_index"
    ELSE "none"

\* Lines 54, 57: table_name = diff.split(" ")[-1]
TableArg(diff) == LastTokens(diff, 1)[1]
\* Lines 60, 63: table_name, name = diff.split(" ")[-2:]
PairArgs(diff) == LastTokens(diff, 2)

\* ------------------------------------------------------------- transactions
\* Variant: the transactions are begun on the source engine.
TxEngine_Source == "source"

\* Lines 76, 89, 103, 124: self.target_engine.begin()
TxEngine == "target"

\* Variant: the transaction is committed whether or not its body raised.
Resolve_AlwaysCommit(tx) == tx.work

\* The exit of `async with engine.begin()`: commit when the body ended
\* normally, roll back when it raised.
Resolve(tx) == IF tx.ok THEN tx.work ELSE tx.base

\* Variant: the transaction is not released when its block is left.
CloseTx_Leak(txs) == txs

\* The exit of `async with` releases the transaction it began.
CloseTx(txs) == SubSeq(txs, 1, Len(txs) - 1)

\* ------------------------------------------------------------- state
VARIABLES
    source,       \* the schema of the source database
    target,       \* the schema of the target database (committed)
    hasMetadata,  \* whether the attribute self.metadata was ever assigned
    opErr,        \* tables whose get_table raises OperationalError, per side
    pc,           \* "idle", "executing", "in_tx", "exiting", "done", "aborted"
    differences,  \* the list compare_schemas returned
    i,            \* position in differences of the next message
    open,         \* the transactions begun and not yet committed or rolled back
    detected,     \* history: the differences as found, before formatting
    order,        \* history: the order in which the table names were visited
    log,          \* history: the handler calls made, in order
    hist,         \* history: the transactions ended, in order
    source0,      \* history: the source schema when the run started
    target0,      \* history: the target schema when the run started
    up,           \* whether each database can be reached and list its tables
    again,        \* the result of a second execution of compare_schemas, if any
    cancelled     \* whether the caller has cancelled the run

vars == <<source, target, hasMetadata, opErr, pc, differences, i, open,
          detected, order, log, hist, source0, target0, up, again, cancelled>>

Entry(op, t, n, r, k) == [op |-> op, table |-> t, name |-> n, res |-> r, diff |-> k]

Raised(r) == r \in {"attr_error", "ddl_error"}

NoErrs == [src |-> {}, tgt |-> {}]
AllUp == [src |-> TRUE, tgt |-> TRUE]

\* Variant: the comparison goes on unless both databases are unreachable.
CanIntrospect_Either(u) == u.src \/ u.tgt

\* Lines 14-19: inspect() and get_table_names() of both engines are outside
\* the try statement; either raises when its database cannot be reached.
CanIntrospect(u) == u.src /\ u.tgt

\* Variant: the CancelledError is caught in the loop, which goes on.
OnCancel_Swallowed == "executing"

\* Lines 51-64: nothing catches the CancelledError raised at an await; it
\* leaves correct_schema.
OnCancel == "cancelled"

\* The state in which correct_schema is entered, for given databases.
StartWith(S, T, errs, u) ==
    /\ up = u
    /\ again = <<>>
    /\ cancelled = FALSE
    /\ source = S
    /\ target = T
    /\ hasMetadata \in BOOLEAN
    /\ opErr = errs
    /\ pc = "idle"
    /\ differences = <<>>
    /\ i = 1
    /\ open = <<>>
    /\ detected = <<>>
    /\ order = <<>>
    /\ log = <<>>
    /\ hist = <<>>
    /\ source0 = S
    /\ target0 = T

Start(S, T, errs) == StartWith(S, T, errs, AllUp)

Init == \E S \in Schemas, T \in Schemas : Start(S, T, NoErrs)

\* Line 50: differences = await self.compare_schemas()
Compare ==
    /\ pc = "idle"
    /\ CanIntrospect(up)
    /\ \E ord \in Orders(get_table_names(source) \cup get_table_names(target)) :
          /\ differences' = compare_schemas(source, target, opErr, ord)
          /\ detected' = Detect(source, target, opErr, ord)
          /\ order' = ord
    /\ pc' = "executing"
    /\ i' = 1
    /\ UNCHANGED <<source, target, hasMetadata, opErr, open, log, hist,
                   source0, target0, up, again, cancelled>>

\* The schema an engine's transactions see.
Db(e) == IF e = "target" THEN target ELSE source

\* One handler call of the loop of lines 51-64, up to its first await: it
\* returns early, raises, or begins a transaction.
Call(op, t, n, plan) ==
    /\ IF plan.res = "ddl"
       THEN /\ open' = Append(open, [engine |-> TxEngine, op |-> op, table |-> t,
                                     name |-> n, diff |-> i, stmts |-> plan.stmts,
                                     base |-> Db(TxEngine), work |-> Db(TxEngine),
                                     ok |-> TRUE])
            /\ pc' = "in_tx"
            /\ UNCHANGED <<log, i>>
       ELSE /\ log' = Append(log, Entry(op, t, n, plan.res, i))
            /\ IF Raised(plan.res)
               THEN pc' = "aborted" /\ i' = i
               ELSE pc' = pc /\ i' = i + 1
            /\ UNCHANGED open
    /\ UNCHANGED <<source, target, hasMetadata, opErr, differences, detected,
                   order, hist, source0, target0, up, again, cancelled>>

DoAddTable ==
    /\ pc = "executing" /\ i <= Len(differences)
    /\ Branch(differences[i]) = "add_table"
    /\ LET t == TableArg(differences[i])
       IN Call("add_table", t, t, add_table(source, hasMetadata, t))

DoCreateTable ==
    /\ pc = "executing" /\ i <= Len(differences)
    /\ Branch(differences[i]) = "create_table"
    /\ LET t == TableArg(differences[i])
       IN Call("create_table", t, t, create_table(source, hasMetadata, t))

DoAddColumn ==
    /\ pc = "executing" /\ i <= Len(differences)
    /\ Branch(differences[i]) = "add_column"
    /\ LET a == PairArgs(differences[i])
       IN Call("add_column", a[1], a[2], add_column(source, a[1], a[2]))

DoAddIndex ==
    /\ pc = "executing" /\ i <= Len(differences)
    /\ Branch(differences[i]) = "add_index"
    /\ LET a == PairArgs(differences[i])
       IN Call("add_index", a[1], a[2], add_index(source, a[1], a[2]))

\* The body of the `async with`: the statements are executed.
Execute ==
    /\ pc = "in_tx"
    /\ LET tx == open[Len(open)]
       IN \E failAt \in 0..Len(tx.stmts) :
             LET r == RunStmts(tx.work, tx.stmts, failAt)
             IN open' = [open EXCEPT ![Len(open)] =
                            [tx EXCEPT !.work = r.work, !.ok = r.ok]]
    /\ pc' = "exiting"
    /\ UNCHANGED <<source, target, hasMetadata, opErr, differences, i, detected,
                   order, log, hist, source0, target0, up, again, cancelled>>

\* The transaction tx has ended leaving its database as final; the handler
\* returns or raises with result r.
EndTx(tx, final, r) ==
    /\ IF tx.engine = "target"
       THEN target' = final /\ source' = source
       ELSE source' = final /\ target' = target
    /\ open' = CloseTx(open)
    /\ hist' = Append(hist, [engine |-> tx.engine, diff |-> tx.diff, res |-> r,
                             stmts |-> tx.stmts, work |-> tx.work,
                             before |-> tx.base, after |-> final])
    /\ log' = Append(log, Entry(tx.op, tx.table, tx.name, r, tx.diff))

\* The exit of the `async with`, and the return to the loop.
ExitTx ==
    /\ pc = "exiting"
    /\ LET tx == open[Len(open)]
       IN /\ EndTx(tx, Resolve(tx), IF tx.ok THEN "applied" ELSE "ddl_error")
          /\ IF tx.ok
             THEN pc' = "executing" /\ i' = i + 1
             ELSE pc' = "aborted" /\ i' = i
    /\ UNCHANGED <<hasMetadata, opErr, differences, detected, order,
                   source0, target0, up, again, cancelled>>

\* Line 65: the loop is over.
Finish ==
    /\ pc = "executing" /\ i > Len(differences)
    /\ pc' = "done"
    /\ UNCHANGED <<source, target, hasMetadata, opErr, differences, i, open,
                   detected, order, log, hist, source0, target0, up, again, cancelled>>

Next ==
    \/ Compare
    \/ DoAddTable
    \/ DoCreateTable
    \/ DoAddColumn
    \/ DoAddIndex
    \/ Execute
    \/ ExitTx
    \/ Finish

Spec == Init /\ [][Next]_vars

\* ------------------------------------------------------------- environments
\* Runs in which some metadata retrievals of the comparison raise
\* OperationalError (lines 22, 23 and 45).
ErrChoices(S, T) ==
    {e \in [src : SUBSET (DOMAIN S \cup DOMAIN T), tgt : SUBSET (DOMAIN S \cup DOMAIN T)] :
        /\ Cardinality(e.src) + Cardinality(e.tgt) >= 1
        /\ Cardinality(e.src) + Cardinality(e.tgt) <= MaxOpErrors}

InitErr ==
    \E S \in PlainSchemas, T \in PlainSchemas : \E e \in ErrChoices(S, T) : Start(S, T, e)

SpecErr == InitErr /\ [][Next]_vars

\* Runs in which a database may be unreachable: inspect() or
\* get_table_names() raises (lines 14-19), and the exception leaves
\* compare_schemas and correct_schema (line 50).
UpChoices == [src : BOOLEAN, tgt : BOOLEAN]

InitConn ==
    \E S \in PlainSchemas, T \in PlainSchemas : \E u \in UpChoices : StartWith(S, T, NoErrs, u)

ConnectFail ==
    /\ pc = "idle"
    /\ ~CanIntrospect(up)
    /\ pc' = "aborted"
    /\ UNCHANGED <<source, target, hasMetadata, opErr, differences, i, open,
                   detected, order, log, hist, source0, target0, up, again, cancelled>>

NextConn == Next \/ ConnectFail

SpecConn == InitConn /\ [][NextConn]_vars

\* Runs in which compare_schemas is executed a second time on the same
\* databases, before anything is changed: another iteration of the set of
\* lines 18-20.
InitPlain == \E S \in PlainSchemas, T \in PlainSchemas : Start(S, T, NoErrs)

CompareAgain ==
    /\ pc = "executing" /\ i = 1 /\ open = <<>> /\ log = <<>>
    /\ again = <<>>
    /\ \E ord \in Orders(get_table_names(source) \cup get_table_names(target)) :
          again' = <<compare_schemas(source, target, opErr, ord)>>
    /\ UNCHANGED <<source, target, hasMetadata, opErr, pc, differences, i, open,
                   detected, order, log, hist, source0, target0, up, cancelled>>

NextTwice == Next \/ CompareAgain

SpecTwice == InitPlain /\ [][NextTwice]_vars

\* Runs which the caller may cancel: the CancelledError is raised at the
\* await at which the run is suspended, inside a transaction. In the body
\* the `async with` rolls back; during the commit of the exit the
\* transaction ends committed or rolled back.
Cancel ==
    /\ pc \in {"in_tx", "exiting"}
    /\ ~cancelled
    /\ LET tx == open[Len(open)]
       IN \E committed \in (IF pc = "exiting" /\ tx.ok THEN BOOLEAN ELSE {FALSE}) :
             EndTx(tx, IF committed THEN tx.work ELSE tx.base, "cancelled")
    /\ cancelled' = TRUE
    /\ pc' = OnCancel
    /\ UNCHANGED <<hasMetadata, opErr, differences, i, detected, order,
                   source0, target0, up, again>>

NextCancel == Next \/ Cancel

SpecCancel == InitPlain /\ [][NextCancel]_vars

\* Runs in which the source loses tables while the actions are executed:
\* three tables, so that an action can follow the one whose table is gone
\* and the one after it.
ChgTableNames == TableNames \cup {Ident(4)}

ChgTableDefs ==
    { [columns |-> {Ident(1)}, indexes |-> <<>>],
      [columns |-> {Ident(1), Ident(2)}, indexes |-> <<>>],
      [columns |-> {Ident(1)},
       indexes |-> [x \in IdxNames |-> [columns |-> <<Ident(1)>>, unique |-> FALSE]]] }

ChgSchemas == UNION {[N -> ChgTableDefs] : N \in SUBSET ChgTableNames}

InitChg == \E S \in ChgSchemas, T \in ChgSchemas : Start(S, T, NoErrs)

Dropped == DOMAIN source0 \ DOMAIN source

SourceDrop ==
    /\ pc = "executing"
    /\ Cardinality(Dropped) < MaxDrops
    /\ \E t \in DOMAIN source :
          source' = [x \in DOMAIN source \ {t} |-> source[x]]
    /\ UNCHANGED <<target, hasMetadata, opErr, pc, differences, i, open,
                   detected, order, log, hist, source0, target0, up, again, cancelled>>

NextChg == Next \/ SourceDrop

SpecChg == InitChg /\ [][NextChg]_vars

TypeOK ==
    /\ pc \in {"idle", "executing", "in_tx", "exiting", "done", "aborted", "cancelled"}
    /\ i \in 1..(Len(differences) + 1)
    /\ Len(detected) = Len(differences)

\* ------------------------------------------------------------- properties
Ended == pc \in {"done", "aborted"}

AllNames == get_table_names(source) \cup get_table_names(target)

\* The tables the source has and the target lacked when the run started.
MissingTables == DOMAIN source \ DOMAIN target0
\* The tables the target had when the run started and the source lacks.
ExtraTables == DOMAIN target0 \ DOMAIN source
SharedTables == DOMAIN source \cap DOMAIN target0

\* The handler calls made so far with operation op for table t.
Calls(op, t) == {j \in DOMAIN log : log[j].op = op /\ log[j].table = t}

\* A logged call refers to table X: by the name it was called with, or by
\* the table of the difference it was issued for.
RefersTo(e, X) == e.table = X \/ detected[e.diff].table = X

ColumnLevel(op) == op \in {"add_column", "add_index"}

\* What a fresh comparison of the source with the present target reports.
Residual == Detect(source, target, NoErrs, InOrder(AllNames))

\* C1 (as claimed): a run that completes without a failure leaves no missing
\* table, column or index: comparing the source with the resulting target
\* reports none.
C1_ConvergenceAfterOnePass ==
    pc = "done" =>
        \A k \in DOMAIN Residual : Residual[k].kind \notin {"missing", "column", "index"}

\* C2: comparing a schema with itself yields no difference, and the run
\* then calls no handler and leaves the target as it was.
C2_SelfCompareEmpty ==
    (pc # "idle" /\ source = target0) =>
        /\ differences = <<>>
        /\ log = <<>>
        /\ target = target0

C2_Witness ==
    /\ pc = "done"
    /\ source = target0
    /\ DOMAIN source = TableNames
    /\ \E t \in DOMAIN source : DOMAIN source[t].indexes # {}

\* C3 (as claimed): when an action fails the run is not aborted: by the end
\* of the run every difference of the list has been attempted.
C3_FailureIsolation ==
    (Ended /\ \E j \in DOMAIN log : Raised(log[j].res)) =>
        \A k \in DOMAIN differences : \E j \in DOMAIN log : log[j].diff = k

\* C4 (as claimed): unless a DDL statement fails on the target, by the end
\* of the run every table the target lacked has had exactly one create-table
\* action, and once that action has succeeded the target holds the table
\* with the column names and index names of the source table.
C4_MissingTableCreated ==
    (Ended /\ \A j \in DOMAIN log : log[j].res # "ddl_error") =>
        \A t \in MissingTables :
            /\ Cardinality(Calls("create_table", t)) = 1
            /\ \A j \in Calls("create_table", t) :
                  log[j].res = "applied" =>
                      /\ t \in DOMAIN target
                      /\ target[t].columns = source[t].columns
                      /\ DOMAIN target[t].indexes = DOMAIN source[t].indexes

\* C5 (as claimed): every add-column action is addressed to the table and
\* the column of the difference it is issued for.
C5_AddColumnAddressed ==
    \A j \in DOMAIN log :
        log[j].op = "add_column" =>
            /\ detected[log[j].diff].kind = "column"
            /\ log[j].table = detected[log[j].diff].table
            /\ log[j].name = detected[log[j].diff].name

\* C6 (as claimed): by the end of a run without failure, every index the
\* target table lacked exists on it with the column list and the uniqueness
\* flag of the source index.
C6_MissingIndexCreated ==
    pc = "done" =>
        \A t \in SharedTables : \A n \in DOMAIN source[t].indexes :
            n \notin DOMAIN target0[t].indexes =>
                /\ n \in DOMAIN target[t].indexes
                /\ target[t].indexes[n] = source[t].indexes[n]

\* C7: when the target equals the source except for tables only the target
\* has, the comparison reports exactly one difference for each such table,
\* "table missing in source", and nothing else; no handler reaches its DDL
\* and the target stays as it was.
C7_Scenario ==
    /\ DOMAIN source \subseteq DOMAIN target0
    /\ ExtraTables # {}
    /\ \A t \in DOMAIN source : source[t] = target0[t]

C7_ExtraTableReportedOnly ==
    (pc # "idle" /\ C7_Scenario) =>
        /\ Len(differences) = Cardinality(ExtraTables)
        /\ \A t \in ExtraTables :
              \E k \in DOMAIN differences : differences[k] = Format(DiffAdded(t))
        /\ \A j \in DOMAIN log : log[j].res = "not_found"
        /\ pc = "done" => Len(log) = Len(differences)
        /\ target = target0

C7_Witness ==
    /\ pc = "done"
    /\ C7_Scenario
    /\ DOMAIN source # {}
    /\ log # <<>>

C10_ExactDifferences ==
    pc # "idle" =>
        /\ \A t \in TableNames : \A c \in ColNames :
              (Format(DiffColumn(t, c)) \in Range(differences)) <=>
                  (/\ t \in SharedTables
                   /\ c \in source[t].columns
                   /\ c \notin target0[t].columns)
        /\ \A t \in TableNames : \A n \in IdxNames :
              (Format(DiffIndex(t, n)) \in Range(differences)) <=>
                  (/\ t \in SharedTables
                   /\ n \in DOMAIN source[t].indexes
                   /\ n \notin DOMAIN target0[t].indexes)

C10_Witness ==
    /\ pc # "idle"
    /\ \E t \in SharedTables :
          /\ target0[t].columns \ source[t].columns # {}
          /\ source[t].columns \ target0[t].columns # {}
          /\ DOMAIN target0[t].indexes # {}
          /\ DOMAIN source[t].indexes = {}
    /\ \E t \in SharedTables :
          DOMAIN source[t].indexes \ DOMAIN target0[t].indexes # {}

\* ------------------------------------------------------------- transactions
\* Schema B keeps every table, column and index of schema A as it was.
Keeps(A, B) ==
    \A t \in DOMAIN A :
        /\ t \in DOMAIN B
        /\ A[t].columns \subseteq B[t].columns
        /\ \A n \in DOMAIN A[t].indexes :
              n \in DOMAIN B[t].indexes /\ B[t].indexes[n] = A[t].indexes[n]

\* The object a statement creates exists in schema T.
Visible(T, s) ==
    /\ s.table \in DOMAIN T
    /\ s.kind = "create_table" => s.colset \subseteq T[s.table].columns
    /\ s.kind = "add_column" => s.name \in T[s.table].columns
    /\ s.kind = "create_index" => s.name \in DOMAIN T[s.table].indexes

\* C14: at most one transaction is open, it is on the target and belongs to
\* the action being executed; none is open between two actions or when the
\* run has ended, normally or by an error; every transaction ended was
\* committed or rolled back.
C14_TransactionScoping ==
    /\ Len(open) <= 1
    /\ \A k \in DOMAIN open :
          /\ pc \in {"in_tx", "exiting"}
          /\ open[k].diff = i
          /\ open[k].engine = "target"
    /\ pc \in {"idle", "executing", "done", "aborted"} => open = <<>>
    /\ \A k \in DOMAIN hist : hist[k].after \in {hist[k].work, hist[k].before}

C14_Witness ==
    /\ pc = "in_tx"
    /\ Len(open) = 1
    /\ \E k \in DOMAIN hist : hist[k].res = "applied"

\* C15: a transaction whose statements all succeeded is committed, and what
\* they created is in the target; one with a failed statement is rolled
\* back, the target being as it was when the action began.  The target only
\* changes by such a commit.
C15_Atomicity ==
    /\ \A k \in DOMAIN hist :
          LET h == hist[k]
          IN /\ h.res = "applied" =>
                    /\ h.after = h.work
                    /\ \A m \in DOMAIN h.stmts : Visible(h.after, h.stmts[m])
             /\ h.res = "ddl_error" => h.after = h.before
             /\ h.before = IF k = 1 THEN target0 ELSE hist[k - 1].after
    /\ target = IF hist = <<>> THEN target0 ELSE hist[Len(hist)].after

C15_Witness ==
    /\ pc = "aborted"
    /\ \E k \in DOMAIN hist : hist[k].res = "applied" /\ hist[k].after # hist[k].before
    /\ \E k \in DOMAIN hist : hist[k].res = "ddl_error" /\ hist[k].work # hist[k].before

\* C19: every table, column and index the target had when the run started
\* is still there, unchanged, in the target and in what an open transaction
\* has written.
C19_TargetOnlyGrows ==
    /\ Keeps(target0, target)
    /\ \A k \in DOMAIN open : Keeps(target0, open[k].work)

C19_Witness ==
    /\ pc = "done"
    /\ target0 # <<>>
    /\ target # target0
    /\ \E j \in DOMAIN log : log[j].res = "not_found"

\* C20: the source schema is what it was when the run started, and every
\* transaction, open or ended, is one on the target.
C20_SourceReadOnly ==
    /\ source = source0
    /\ \A k \in DOMAIN open : open[k].engine = "target"
    /\ \A k \in DOMAIN hist : hist[k].engine = "target"

C20_Witness ==
    /\ pc = "done"
    /\ \E k \in DOMAIN hist : hist[k].res = "applied"
    /\ \E j \in DOMAIN log : log[j].op = "add_table"

\* ------------------------------------------------------------- introspection
\* The tables whose metadata retrieval raises on some side.
Failing == opErr.src \cup opErr.tgt
FailingOneSide == (opErr.src \ opErr.tgt) \cup (opErr.tgt \ opErr.src)

\* The visiting order without the tables in N.
Without(ord, N) == SelectSeq(ord, LAMBDA t : t \notin N)

\* C11: a table whose metadata retrieval raises gets no difference, the
\* comparison is not aborted, and the list is the one found had the failing
\* tables not been visited.
C11_IntrospectionFailureIsolated ==
    /\ pc = "aborted" => log # <<>>
    /\ pc # "idle" =>
          /\ \A k \in DOMAIN detected : detected[k].table \notin Failing
          /\ differences =
                compare_schemas(source0, target0, NoErrs, Without(order, Failing))

C11_Witness ==
    /\ pc # "idle"
    /\ Len(order) = 2
    /\ order[1] \in Failing
    /\ TableDiffs(source0, target0, NoErrs, order[1]) # <<>>
    /\ differences # <<>>

\* C12 (as claimed): a table whose retrieval fails on the target only is
\* reported missing in the target, one whose retrieval fails on the source
\* only is reported missing in the source.
C12_FailedTableTreatedAsAbsent ==
    pc # "idle" =>
        /\ \A t \in (opErr.tgt \ opErr.src) \cap DOMAIN source0 :
              Format(DiffMissing(t)) \in Range(differences)
        /\ \A t \in opErr.src \ opErr.tgt :
              Format(DiffAdded(t)) \in Range(differences)

\* C12 (amended): a table whose retrieval fails on one side only is not
\* treated as absent on that side: it is reported neither missing in the
\* target nor missing in the source, and no create-table or add-table call
\* is made for it.
C12_FailedTableSkipped ==
    pc # "idle" =>
        \A t \in FailingOneSide :
            /\ Format(DiffMissing(t)) \notin Range(differences)
            /\ Format(DiffAdded(t)) \notin Range(differences)
            /\ Calls("create_table", t) = {}
            /\ Calls("add_table", t) = {}

C12_Witness ==
    /\ pc = "done"
    /\ \E t \in opErr.tgt \ opErr.src : t \in DOMAIN source0 /\ t \notin DOMAIN target0
    /\ log # <<>>


\* ------------------------------------------------------------- properties: reachability
\* No difference has been computed and no action has been executed.
NothingDone ==
    /\ differences = <<>> /\ detected = <<>>
    /\ log = <<>> /\ hist = <<>> /\ open = <<>>
    /\ target = target0

AbortedInIntrospection == pc = "aborted" /\ NothingDone

\* C13 (as stated): a run ends early during introspection, before any
\* difference is computed, only if both databases cannot list their
\* tables; with exactly one of them down the run does not abort.
C13_AbortOnlyIfBothDown ==
    AbortedInIntrospection => (~up.src /\ ~up.tgt)

\* C13 (amended): a run ends early during introspection, before any
\* difference is computed, exactly when the source or the target cannot
\* list its tables: then no difference is ever computed and no action is
\* executed, and with both reachable the run never ends that way.
C13_AbortIffEitherDown ==
    /\ AbortedInIntrospection => (~up.src \/ ~up.tgt)
    /\ (~up.src \/ ~up.tgt) => (pc \in {"idle", "aborted"} /\ NothingDone)

C13_Witness ==
    /\ AbortedInIntrospection
    /\ up.src /\ ~up.tgt
    /\ DOMAIN source # DOMAIN target

\* ------------------------------------------------------------- properties: determinism
\* C17: two executions of the comparison on the same source and target
\* yield the same differences in the same order.
C17_SameOrder ==
    again # <<>> => again[1] = differences

\* ------------------------------------------------------------- properties: cancellation
\* C18: once the run is cancelled, the transaction that was open has been
\* committed or rolled back and released, and no further action starts:
\* the call that was cancelled stays the last one.
C18_Cancellation ==
    cancelled =>
        /\ open = <<>>
        /\ log # <<>> /\ log[Len(log)].res = "cancelled"
        /\ hist # <<>>
        /\ LET h == hist[Len(hist)]
           IN /\ h.res = "cancelled"
              /\ h.after \in {h.before, h.work}
              /\ target = h.after
        /\ \A j \in DOMAIN log : log[j].res = "cancelled" => j = Len(log)

C18_Witness ==
    /\ cancelled
    /\ i < Len(differences)
    /\ hist[Len(hist)].work # hist[Len(hist)].before
    /\ target = hist[Len(hist)].before

\* ------------------------------------------------------------- properties: source changes
\* The calls whose table was in the source when the run started and was
\* not found in it when the call was made.
GoneCalls ==
    {j \in DOMAIN log : /\ log[j].res = "not_found"
                         /\ log[j].table \in DOMAIN source0
                         /\ log[j].table \notin DOMAIN source}

\* C16: when the table an action refers to is gone from the source by the
\* time the action is executed, the action executes no DDL and fails with
\* "not found", and the actions after it are still attempted.
C16_SourceChangedMidRun ==
    \A j \in GoneCalls :
        /\ \A h \in DOMAIN hist : hist[h].diff # log[j].diff
        /\ Ended =>
              \A k \in (log[j].diff + 1)..Len(differences) :
                  \E m \in DOMAIN log : log[m].diff = k
====
